---- MODULE Spec2Model ----
(***************************************************************************)
(* memsafi: an LD_PRELOAD library that interposes malloc, calloc, realloc  *)
(* and free, keeps statistics (SafiStats) and prints them periodically.    *)
(*                                                                         *)
(* Sources: src/src/library.cpp, src/include/library.h.                    *)
(*                                                                         *)
(* size_t and int64_t are 64 bits wide in the build.  TLC's integers are   *)
(* 32 bits wide, so the model keeps the two's-complement arithmetic of the *)
(* code at a reduced width of WordBits bits: size_t values live in         *)
(* 0..Word-1, int64_t values in -Word/2..Word/2-1, and every conversion    *)
(* and wrap-around of the code is applied at that width.                   *)
(***************************************************************************)
EXTENDS Integers, Sequences, FiniteSets, TLC

(***************************************************************************)
(* Bounds of the model.                                                    *)
(***************************************************************************)
WordBits == 20
MaxCalls == 2
MaxNested == 1
NumThreads == 2
MaxOps == 2
MaxArenaCalls == 2

(***************************************************************************)
(* Program constants.                                                      *)
(***************************************************************************)
TEMP_BUFFER_SIZE == 80000
\* sizeof(std::thread): the object that "new std::thread(...)" allocates
ThreadObjSize == 8
\* the divisor of print_size
Kilo == 1024

Word == 2 ^ WordBits

\* value of a size_t expression
ToSize(x) == x % Word

\* conversion of a size_t (or of a wrapped sum) to int64_t
ToInt64(x) == LET m == x % Word IN IF m >= Word \div 2 THEN m - Word ELSE m

Max(a, b) == IF a >= b THEN a ELSE b

(***************************************************************************)
(* The byte values print_size is given are int64_t values far beyond the    *)
(* integers of the model checker, so a non-negative value is kept in two    *)
(* limbs, hi * Limb + lo with 0 <= lo < Limb, and the arithmetic of the     *)
(* code is done on the limbs.                                               *)
(***************************************************************************)
Limb == 2 ^ 30

Value(hi, lo) == [hi |-> hi, lo |-> lo]

IsPositive(x) == x.hi > 0 \/ x.lo > 0

Geq(x, y) == x.hi > y.hi \/ (x.hi = y.hi /\ x.lo >= y.lo)

\* size / 1024 on a non-negative int64_t
DivKilo(x) ==
  Value(x.hi \div Kilo, (x.hi % Kilo) * (Limb \div Kilo) + x.lo \div Kilo)

(***************************************************************************)
(* Pointers.  A pointer is NULL, an address inside temp_buffer (its        *)
(* offset), or a block of the real allocator (its identity).               *)
(***************************************************************************)
NULL == [k |-> "null", a |-> 0]
ArenaPtr(off) == [k |-> "arena", a |-> off]
HeapPtr(id) == [k |-> "heap", a |-> id]

\* every call and every __init_safi allocates at most one block
Blocks == 1 .. (2 * (MaxCalls + MaxNested))

\* request sizes the callers use
Sizes == {8, 100, Word - 50}

\* new sizes the callers give to realloc
ReallocSizes == {0, 8, 100}

\* usable sizes the real allocator hands out (its size classes)
UsableSizes == {24, 104}

\* the size class of a request, 0 when the request is too large to serve
SizeClass(size) ==
  IF \E u \in UsableSizes : u >= size
  THEN CHOOSE u \in UsableSizes : u >= size /\ \A v \in UsableSizes : v >= size => u <= v
  ELSE 0

\* what malloc_usable_size may return for a pointer that is no heap block
UndefUsable == {0, 16}

\* the four symbols SafiControl::init looks up, in the order of the lookups
Symbols == <<"malloc", "calloc", "realloc", "free">>

VARIABLES
  safiControl,       \* SafiControl: pending_init and the four orig_* pointers
  safiStats,         \* SafiStats: the eight atomic counters
  used_buffer_size,  \* offset of the bump allocator in temp_buffer
  handed,            \* offsets __temp_malloc has returned
  heap,              \* real allocator: block -> usable size, 0 when not allocated
  stack,             \* calls suspended inside SafiControl::init (innermost last)
  print_thread,      \* the global print_thread pointer
  thread_objs,       \* the blocks holding the std::thread objects created
  inits,             \* number of times SafiControl::init has been entered
  resolved,          \* number of times SafiControl::init has run to its end
  dl,                \* the dynamic linker: what dlsym has answered for each symbol
  terminated,        \* the process has exited or aborted
  ncalls,            \* calls the program has made
  nnested,           \* calls dlsym has made while a lookup was running
  last,              \* the last interposed call that returned
  thr,               \* concurrent recordings: each thread's position
  issued,            \* concurrent recordings: the statistics the recordings begun
                     \* so far give when they run one after another
  arena,             \* __temp_malloc on its own: who holds buffer_mutex, with
                     \* which request, and the regions handed out so far
  ps,                \* print_size on its own: its argument, its loop variables
                     \* and what it has printed
  run                \* the process from __libc_start_main to its end: the main
                     \* thread, the application's threads, the reporting threads

vars == <<safiControl, safiStats, used_buffer_size, handed, heap, stack,
          print_thread, thread_objs, inits, resolved, dl, terminated, ncalls, nnested,
          last, thr, issued, arena, ps, run>>

\* the parts of the state no interposed call and no recording touches
Apart == <<arena, ps, run>>

(***************************************************************************)
(* SafiStats (library.h).  The counters are std::atomic<int64_t>; an       *)
(* argument of type size_t is converted to int64_t by operator+= and       *)
(* operator-=.                                                             *)
(***************************************************************************)
StatsInit ==
  [m_reserved |-> 0, m_total_reserved |-> 0, m_real_peak |-> 0, m_freed |-> 0,
   m_num_mallocs |-> 0, m_num_callocs |-> 0, m_num_reallocs |-> 0,
   m_num_frees |-> 0]

\* std::atomic<int64_t>::operator+= : one atomic read-modify-write
fetch_add(v, d) == ToInt64(v + d)

NoPeakUpdate(st, size) ==
  [st EXCEPT !.m_reserved = fetch_add(@, ToInt64(size)),
             !.m_total_reserved = fetch_add(@, ToInt64(size))]

log_alloc_helper(st, size) ==
  LET r == fetch_add(st.m_reserved, ToInt64(size))
  IN  [st EXCEPT !.m_reserved = r,
                 !.m_total_reserved = fetch_add(@, ToInt64(size)),
                 !.m_real_peak = Max(@, r)]

log_malloc(st, size) ==
  [log_alloc_helper(st, size) EXCEPT !.m_num_mallocs = @ + 1]

log_calloc(st, size) ==
  [log_alloc_helper(st, size) EXCEPT !.m_num_callocs = @ + 1]

log_realloc(st, size) ==
  [log_alloc_helper(st, size) EXCEPT !.m_num_reallocs = @ + 1]

FreeForgetsFreed(st, size) ==
  [st EXCEPT !.m_reserved = fetch_add(@, 0 - ToInt64(size)),
             !.m_num_frees = @ + 1]

log_free(st, size) ==
  [st EXCEPT !.m_reserved = fetch_add(@, 0 - ToInt64(size)),
             !.m_freed = fetch_add(@, ToInt64(size)),
             !.m_num_frees = @ + 1]

(***************************************************************************)
(* The process state the handlers work on, as one record, and what a       *)
(* handler hands back: the new state, the pointer returned, whether the    *)
(* call returned ("ret"), is suspended inside SafiControl::init ("susp")   *)
(* or ended the process ("exit"), and what the call did on the way.        *)
(***************************************************************************)
World ==
  [ctl |-> safiControl, st |-> safiStats, used |-> used_buffer_size,
   handed |-> handed, heap |-> heap, stack |-> stack,
   print_thread |-> print_thread, thread_objs |-> thread_objs,
   inits |-> inits, resolved |-> resolved,
   terminated |-> terminated]

\* real: the real primitives called; fwd: a pointer that is no heap block was
\* given to a real primitive; zero: the returned region is known to be all
\* zero; fail: a real primitive failed (returned null for lack of memory);
\* old: the usable size of the argument block, read before the call;
\* inited: the call ran __init_safi
NoInfo ==
  [real |-> {}, fwd |-> FALSE, zero |-> FALSE, fail |-> FALSE, old |-> 0,
   inited |-> FALSE]

Join(i, j) ==
  [real |-> i.real \cup j.real, fwd |-> i.fwd \/ j.fwd, zero |-> i.zero,
   fail |-> i.fail \/ j.fail, old |-> j.old, inited |-> i.inited \/ j.inited]

Returned(w, p, i) == [w |-> w, ret |-> p, status |-> "ret", info |-> i]
Suspended(w) == [w |-> w, ret |-> NULL, status |-> "susp", info |-> NoInfo]
Exited(w, i) ==
  [w |-> [w EXCEPT !.terminated = TRUE], ret |-> NULL, status |-> "exit",
   info |-> i]

(***************************************************************************)
(* The real allocator behind the orig_* pointers (glibc).  e is what the   *)
(* environment decides for this call: e.ok whether memory is available    *)
(* (a request too large for every size class fails anyway), e.g what       *)
(* malloc_usable_size reads for a pointer that is no heap block, e.abort   *)
(* whether the allocator aborts on such a pointer.  Memory obtained from   *)
(* the real malloc is not known to be zero.                                *)
(***************************************************************************)
FreeIds(w) == {b \in Blocks : w.heap[b] = 0}

IsLive(w, p) == p.k = "heap" /\ w.heap[p.a] > 0

malloc_usable_size(w, p, e) ==
  IF p.k = "null" THEN 0
  ELSE IF p.k = "heap" THEN w.heap[p.a]
  ELSE e.g

orig_malloc(w, size, e) ==
  IF e.ok /\ SizeClass(size) > 0 /\ FreeIds(w) # {}
  THEN LET b == CHOOSE x \in FreeIds(w) : \A y \in FreeIds(w) : x <= y
       IN  Returned([w EXCEPT !.heap[b] = SizeClass(size)], HeapPtr(b),
                    [NoInfo EXCEPT !.real = {"malloc"}])
  ELSE Returned(w, NULL, [NoInfo EXCEPT !.real = {"malloc"}, !.fail = TRUE])

\* the real calloc checks num * size for overflow and zero-fills the block
orig_calloc(w, num, size, e) ==
  IF num * size < Word /\ e.ok /\ SizeClass(num * size) > 0 /\ FreeIds(w) # {}
  THEN LET b == CHOOSE x \in FreeIds(w) : \A y \in FreeIds(w) : x <= y
       IN  Returned([w EXCEPT !.heap[b] = SizeClass(num * size)], HeapPtr(b),
                    [NoInfo EXCEPT !.real = {"calloc"}, !.zero = TRUE])
  ELSE Returned(w, NULL, [NoInfo EXCEPT !.real = {"calloc"}, !.fail = TRUE])

orig_realloc(w, p, size, e) ==
  LET i == [NoInfo EXCEPT !.real = {"realloc"}] IN
  IF p.k = "null" THEN
    LET r == orig_malloc(w, size, e)
    IN  [r EXCEPT !.info = [@ EXCEPT !.real = {"realloc"}]]
  ELSE IF p.k = "heap" THEN
    IF size = 0 THEN Returned([w EXCEPT !.heap[p.a] = 0], NULL, i)
    ELSE IF e.ok /\ SizeClass(size) > 0
         THEN Returned([w EXCEPT !.heap[p.a] = SizeClass(size)], p, i)
         ELSE Returned(w, NULL, [i EXCEPT !.fail = TRUE])
  ELSE \* no heap block: undefined behaviour in the allocator
    IF e.abort THEN Exited(w, [i EXCEPT !.fwd = TRUE])
    ELSE LET r == orig_malloc(w, size, e)
         IN  [r EXCEPT !.info = [@ EXCEPT !.real = {"realloc"}, !.fwd = TRUE]]

orig_free(w, p, e) ==
  LET i == [NoInfo EXCEPT !.real = {"free"}] IN
  IF p.k = "null" THEN Returned(w, NULL, i)
  ELSE IF p.k = "heap" THEN Returned([w EXCEPT !.heap[p.a] = 0], NULL, i)
  ELSE IF e.abort THEN Exited(w, [i EXCEPT !.fwd = TRUE])
       ELSE Returned(w, NULL, [i EXCEPT !.fwd = TRUE])

(***************************************************************************)
(* A call suspended inside SafiControl::init: cont says where the call     *)
(* continues when __init_safi returns, k how many of the four dlsym        *)
(* lookups have returned, pre the statistics when the call was made.       *)
(***************************************************************************)
Frame(cont, size, p, newp, call, info) ==
  [cont |-> cont, size |-> size, ptr |-> p, newp |-> newp, k |-> 0,
   call |-> call, info |-> info]

Top(w) == w.stack[Len(w.stack)]

Pop(q) == SubSeq(q, 1, Len(q) - 1)

\* __init_safi (library.cpp:122-130) and SafiControl::init up to its first
\* dlsym (library.h:82-83)
EnterInit(w, f) ==
  Suspended([w EXCEPT !.ctl.pending_init = TRUE, !.inits = @ + 1,
                      !.stack = Append(@, f)])

\* static zero-initialised buffer: a region is all zero unless the offset has
\* wrapped back over regions handed out before
temp_malloc(w, size) ==
  IF ToSize(w.used + size) > TEMP_BUFFER_SIZE THEN Exited(w, NoInfo)
  ELSE Returned([w EXCEPT !.used = ToSize(@ + size),
                          !.handed = @ \cup {w.used}],
                ArenaPtr(w.used),
                [NoInfo EXCEPT !.zero = \A h \in w.handed : h <= w.used])

\* library.cpp:158-161
malloc_tail(w, size, e) ==
  LET r == orig_malloc(w, size, e)
  IN  [r EXCEPT !.w.st = log_malloc(@, malloc_usable_size(r.w, r.ret, e))]

\* "safiControl.orig_malloc == nullptr" (library.cpp:154)
malloc_needs_init(ctl) == ~ctl.orig_malloc

MallocSkipsWindow(w, size, e, f) ==
  IF malloc_needs_init(w.ctl) THEN EnterInit(w, f) ELSE malloc_tail(w, size, e)

malloc(w, size, e, f) ==
  IF w.ctl.pending_init THEN temp_malloc(w, size)
  ELSE IF malloc_needs_init(w.ctl) THEN EnterInit(w, f)
  ELSE malloc_tail(w, size, e)

BelowUsedOnly(w, p) == p.k = "arena" /\ p.a >= 0 /\ p.a < w.used

\* ptr >= temp_buffer && ptr <= temp_buffer + used_buffer_size
in_temp_buffer(w, p) == p.k = "arena" /\ p.a >= 0 /\ p.a <= w.used

\* "safiControl.orig_free == nullptr" (library.cpp:232)
free_needs_init(ctl) == ~ctl.orig_free

\* library.cpp:236-239
free_tail(w, p, e) ==
  LET size == malloc_usable_size(w, p, e)
      r == orig_free([w EXCEPT !.st = log_free(@, size)], p, e)
  IN  [r EXCEPT !.info = [@ EXCEPT !.old = size]]

free(w, p, e, f) ==
  IF in_temp_buffer(w, p) THEN Returned(w, NULL, NoInfo)
  ELSE IF free_needs_init(w.ctl) THEN EnterInit(w, f)
  ELSE free_tail(w, p, e)

\* memset(p, 0, num * size) of the fallback path (library.cpp:178-181)
calloc_fill(r) ==
  IF r.status = "ret" /\ r.ret # NULL THEN [r EXCEPT !.info.zero = TRUE] ELSE r

calloc(w, num, size, e, call) ==
  IF ~w.ctl.orig_calloc THEN
    LET n == ToSize(num * size)
    IN  calloc_fill(malloc(w, n, e, Frame("calloc", n, NULL, NULL, call, NoInfo)))
  ELSE
    LET r == orig_calloc(w, num, size, e)
    IN  [r EXCEPT !.w.st = log_calloc(@, malloc_usable_size(r.w, r.ret, e))]

\* library.cpp:204-208, r being what malloc(size) returned
realloc_fallback(r, p, e, call) ==
  IF r.status = "ret" /\ r.ret # NULL /\ p # NULL THEN
    LET q == free(r.w, p, e,
                  Frame("realloc_free", 0, p, r.ret, call,
                        [r.info EXCEPT !.zero = FALSE]))
    IN  [w |-> q.w, ret |-> r.ret, status |-> q.status,
         info |-> Join([r.info EXCEPT !.zero = FALSE], q.info)]
  ELSE r

ClampedDelta(new_size, old_size) ==
  IF new_size >= old_size THEN new_size - old_size ELSE 0

\* malloc_usable_size(new_ptr) - old_size, a subtraction of two size_t
realloc_delta(new_size, old_size) == ToSize(new_size - old_size)

realloc(w, p, size, e, call) ==
  IF ~w.ctl.orig_realloc THEN
    realloc_fallback(
      malloc(w, size, e, Frame("realloc_malloc", size, p, NULL, call, NoInfo)),
      p, e, call)
  ELSE
    LET old == malloc_usable_size(w, p, e)
        r == orig_realloc(w, p, size, e)
    IN  IF r.status = "exit" THEN r
        ELSE [r EXCEPT
               !.w.st = log_realloc(@,
                          realloc_delta(malloc_usable_size(r.w, r.ret, e), old)),
               !.info = [@ EXCEPT !.old = old]]

\* where a suspended call goes on once __init_safi has returned
Resume(w, f, e) ==
  CASE f.cont = "malloc" -> malloc_tail(w, f.size, e)
    [] f.cont = "calloc" -> calloc_fill(malloc_tail(w, f.size, e))
    [] f.cont = "realloc_malloc" ->
         realloc_fallback(malloc_tail(w, f.size, e), f.ptr, e, f.call)
    [] f.cont = "free" -> free_tail(w, f.ptr, e)
    [] f.cont = "realloc_free" ->
         LET q == free_tail(w, f.ptr, e)
         IN  [q EXCEPT !.ret = f.newp, !.info = Join(f.info, q.info)]

SetOrig(ctl, sym, v) ==
  CASE sym = "malloc" -> [ctl EXCEPT !.orig_malloc = v]
    [] sym = "calloc" -> [ctl EXCEPT !.orig_calloc = v]
    [] sym = "realloc" -> [ctl EXCEPT !.orig_realloc = v]
    [] sym = "free" -> [ctl EXCEPT !.orig_free = v]

\* one "orig_X = dlsym(RTLD_NEXT, X)" of SafiControl::init (library.h:84-87)
init_lookup(w, found) ==
  LET n == Len(w.stack)
      sym == Symbols[w.stack[n].k + 1]
  IN  [w EXCEPT !.ctl = SetOrig(@, sym, found), !.stack[n].k = @ + 1]

\* the end of SafiControl::init (library.h:89-93) and of __init_safi
\* (library.cpp:133-135), then the rest of the call that ran it.  operator
\* new obtains the std::thread object from malloc, which is the interposed
\* malloc; when that fails, operator new throws and the process terminates.
init_end(w, e1, e2) ==
  LET f == Top(w) IN
  IF ~(w.ctl.orig_malloc /\ w.ctl.orig_calloc /\ w.ctl.orig_realloc
         /\ w.ctl.orig_free)
  THEN Exited(w, NoInfo)
  ELSE
    LET w1 == [w EXCEPT !.ctl.pending_init = FALSE, !.resolved = @ + 1,
                        !.stack = Pop(@)]
        t == malloc(w1, ThreadObjSize, e1, f)
    IN  IF t.status # "ret" \/ t.ret = NULL THEN Exited(t.w, NoInfo)
        ELSE LET w2 == [t.w EXCEPT !.print_thread = t.ret,
                                   !.thread_objs = @ \cup {t.ret.a}]
                 r == Resume(w2, f, e2)
             IN  [r EXCEPT !.info = [@ EXCEPT !.inited = TRUE]]

(***************************************************************************)
(* What the environment may decide for one call.                           *)
(***************************************************************************)
EnvSet ==
  [ok : BOOLEAN, g : UndefUsable, abort : BOOLEAN]

EnvAlloc == {e \in EnvSet : e.g = 0 /\ ~e.abort}

EnvFree == {e \in EnvSet : e.ok}


\* sizes of num * size pairs given to calloc; the last product overflows size_t
CallocArgs == {<<10, 8>>, <<Word \div 2, 2>>}

\* addresses inside temp_buffer that callers probe free with
ProbeOffsets == {TEMP_BUFFER_SIZE - 1}

\* pointers a caller holds: null, its live heap blocks, what __temp_malloc
\* has handed out
HeldPtrs ==
  {NULL} \cup {HeapPtr(b) : b \in {x \in Blocks : heap[x] > 0} \ thread_objs}
         \cup {ArenaPtr(o) : o \in handed}

\* the record of a call: its arguments; when it was made, the statistics
\* (pre), the arena offset (used), the usable size of the block given (held),
\* the number of calls it is nested in (depth), the value of pending_init
\* (pending) and whether it takes the path
\* for an unresolved real primitive (fallback); when it returned, the pointer
\* returned (ret), the size of the region at ret (got), the statistics (post)
\* and what it did (info)
NoCall ==
  [op |-> "none", ptr |-> NULL, num |-> 0, size |-> 0, pre |-> StatsInit,
   used |-> 0, held |-> 0, depth |-> 0, pending |-> FALSE, fallback |-> FALSE,
   ret |-> NULL, got |-> 0, post |-> StatsInit, info |-> NoInfo]

Call(op, p, num, size, fallback) ==
  [op |-> op, ptr |-> p, num |-> num, size |-> size, pre |-> safiStats,
   used |-> used_buffer_size,
   held |-> IF p.k = "heap" THEN heap[p.a] ELSE 0,
   depth |-> Len(stack), pending |-> safiControl.pending_init,
   fallback |-> fallback]

Done(call, r) ==
  [op |-> call.op, ptr |-> call.ptr, num |-> call.num, size |-> call.size,
   pre |-> call.pre, used |-> call.used, held |-> call.held,
   depth |-> call.depth, pending |-> call.pending, fallback |-> call.fallback,
   ret |-> r.ret,
   got |-> IF r.ret.k = "heap" THEN r.w.heap[r.ret.a]
           ELSE IF r.ret.k = "arena" THEN ToSize(r.w.used - r.ret.a)
           ELSE 0,
   post |-> r.w.st, info |-> r.info]

Commit(r, call) ==
  /\ safiControl' = r.w.ctl
  /\ safiStats' = r.w.st
  /\ used_buffer_size' = r.w.used
  /\ handed' = r.w.handed
  /\ heap' = r.w.heap
  /\ stack' = r.w.stack
  /\ print_thread' = r.w.print_thread
  /\ thread_objs' = r.w.thread_objs
  /\ inits' = r.w.inits
  /\ resolved' = r.w.resolved
  /\ terminated' = r.w.terminated
  /\ last' = IF r.status = "ret" THEN Done(call, r) ELSE last
  /\ UNCHANGED <<dl, thr, issued>>
  /\ UNCHANGED Apart

\* a call can be made by the program, or by dlsym while a lookup is running
CanCall ==
  /\ ~terminated
  /\ IF stack = <<>> THEN ncalls < MaxCalls
     ELSE nnested < MaxNested /\ Top(World).k < 4

Count ==
  /\ ncalls' = IF stack = <<>> THEN ncalls + 1 ELSE ncalls
  /\ nnested' = IF stack = <<>> THEN nnested ELSE nnested + 1

ArenaInit == [holder |-> 0, size |-> 0, log |-> <<>>]

PsInit == [pc |-> "idle", v |-> Value(0, 0), size |-> Value(0, 0), i |-> 0,
           num |-> Value(0, 0), unit |-> "none"]

\* pc: where the main thread is; app: where each application thread is in
\* its first call; daemon: where each __print_safi_stats thread is;
\* disabled: m_disable_print; the rest records what has happened
RunInit ==
  [pc |-> "start", app |-> [t \in 1 .. NumThreads |-> [pc |-> "idle", op |-> "none"]],
   daemon |-> <<>>, disabled |-> FALSE, main_calls |-> 0, ret |-> 0,
   hook_ret |-> 0, final_reports |-> 0, late_report |-> FALSE,
   stale_report |-> FALSE,
   retired |-> FALSE, lookup_failed |-> FALSE, null_call |-> FALSE,
   diag |-> FALSE, status |-> 0]

ThrInit ==
  [t \in 1 .. NumThreads |->
     [pc |-> "idle", op |-> "none", size |-> 0, lp |-> 0, lr |-> 0, seen |-> 0]]

Init ==
  /\ safiControl = [pending_init |-> FALSE, orig_malloc |-> FALSE,
                    orig_calloc |-> FALSE, orig_realloc |-> FALSE,
                    orig_free |-> FALSE, orig_main |-> FALSE]
  /\ safiStats = StatsInit
  /\ used_buffer_size = 0
  /\ handed = {}
  /\ heap = [b \in Blocks |-> 0]
  /\ stack = <<>>
  /\ print_thread = NULL
  /\ thread_objs = {}
  /\ inits = 0
  /\ resolved = 0
  /\ dl = [x \in {"malloc", "calloc", "realloc", "free"} |-> "unknown"]
  /\ terminated = FALSE
  /\ ncalls = 0
  /\ nnested = 0
  /\ last = NoCall
  /\ thr = ThrInit
  /\ issued = StatsInit
  /\ arena = ArenaInit
  /\ ps = PsInit
  /\ run = RunInit

CallMalloc ==
  /\ CanCall
  /\ \E size \in Sizes, e \in EnvAlloc :
       LET c == Call("malloc", NULL, 0, size, FALSE)
       IN  Commit(malloc(World, size, e, Frame("malloc", size, NULL, NULL, c, NoInfo)), c)
  /\ Count

CallCalloc ==
  /\ CanCall
  /\ \E a \in CallocArgs, e \in EnvAlloc :
       LET c == Call("calloc", NULL, a[1], a[2], ~safiControl.orig_calloc)
       IN  Commit(calloc(World, a[1], a[2], e, c), c)
  /\ Count

CallRealloc ==
  /\ CanCall
  /\ \E p \in HeldPtrs, size \in ReallocSizes, e \in EnvSet :
       LET c == Call("realloc", p, 0, size, ~safiControl.orig_realloc)
       IN  Commit(realloc(World, p, size, e, c), c)
  /\ Count

CallFree ==
  /\ CanCall
  /\ \E p \in HeldPtrs \cup {ArenaPtr(o) : o \in ProbeOffsets}, e \in EnvFree :
       LET c == Call("free", p, 0, 0, FALSE)
       IN  Commit(free(World, p, e, Frame("free", 0, p, NULL, c, NoInfo)), c)
  /\ Count

\* a dlsym of SafiControl::init returns; dlsym answers the same for a symbol
\* every time it is asked, and at most one symbol is missing
Lookup ==
  /\ ~terminated
  /\ stack # <<>>
  /\ Top(World).k < 4
  /\ LET sym == Symbols[Top(World).k + 1] IN
     \E found \in BOOLEAN :
       /\ dl[sym] \in {"unknown", IF found THEN "found" ELSE "missing"}
       /\ found \/ \A x \in DOMAIN dl : dl[x] = "missing" => x = sym
       /\ dl' = [dl EXCEPT ![sym] = IF found THEN "found" ELSE "missing"]
       /\ LET w == init_lookup(World, found)
          IN  /\ safiControl' = w.ctl
              /\ stack' = w.stack
  /\ UNCHANGED <<safiStats, used_buffer_size, handed, heap, print_thread,
                 thread_objs, inits, resolved, terminated, ncalls, nnested,
                 last, thr, issued>>
  /\ UNCHANGED Apart

\* SafiControl::init and __init_safi finish, and the caller goes on
InitEnd ==
  /\ ~terminated
  /\ stack # <<>>
  /\ Top(World).k = 4
  /\ \E e1 \in EnvAlloc, e2 \in EnvSet :
       Commit(init_end(World, e1, e2), Top(World).call)
  /\ UNCHANGED <<ncalls, nnested>>

Next ==
  \/ CallMalloc
  \/ CallCalloc
  \/ CallRealloc
  \/ CallFree
  \/ Lookup
  \/ InitEnd

Spec == Init /\ [][Next]_vars

(***************************************************************************)
(* The recordings of SafiStats made by several threads at once.  Every     *)
(* operation on a std::atomic counter is one step; log_alloc_helper is     *)
(* five of them (two read-modify-writes, two loads in either order, one    *)
(* store) and the counter increment is a sixth.                            *)
(***************************************************************************)
Threads == 1 .. NumThreads

\* usable sizes recorded by log_malloc, log_calloc and log_free, and the
\* differences recorded by log_realloc (a growth and a shrinkage, as size_t)
MTSizes == {104}
MTDeltas == {ToSize(104 - 24), ToSize(24 - 104)}

Recorded(st) ==
  st.m_num_mallocs + st.m_num_callocs + st.m_num_reallocs + st.m_num_frees

LoadThenStore(cur, seen, d) == ToInt64(seen + d)

\* operator+=, operator-= and operator++ of std::atomic<int64_t>: the value
\* written is computed from the value the counter holds at that moment (cur),
\* not from a value the thread read earlier (seen)
atomic_rmw(cur, seen, d) == fetch_add(cur, d)

SequentialRun(st, op, size) ==
  CASE op = "malloc" -> log_malloc(st, size)
    [] op = "calloc" -> log_calloc(st, size)
    [] op = "realloc" -> log_realloc(st, size)
    [] op = "free" -> log_free(st, size)

CountField(op) ==
  CASE op = "malloc" -> "m_num_mallocs"
    [] op = "calloc" -> "m_num_callocs"
    [] op = "realloc" -> "m_num_reallocs"
    [] op = "free" -> "m_num_frees"

MTFrame ==
  /\ UNCHANGED <<safiControl, used_buffer_size, handed, heap, stack,
                 print_thread, thread_objs, inits, resolved, dl, terminated,
                 ncalls, nnested, last>>
  /\ UNCHANGED Apart

\* a thread enters log_malloc, log_calloc, log_realloc or log_free
MTBegin(t) ==
  /\ thr[t].pc = "idle"
  /\ Recorded(issued) < MaxOps
  /\ \E op \in {"malloc", "calloc", "realloc", "free"} :
       \E size \in (IF op = "realloc" THEN MTDeltas ELSE MTSizes) :
         /\ thr' = [thr EXCEPT ![t] = [pc |-> "reserved", op |-> op,
                                       size |-> size, lp |-> 0, lr |-> 0,
                                       seen |-> safiStats.m_reserved]]
         /\ issued' = SequentialRun(issued, op, size)
  /\ UNCHANGED safiStats
  /\ MTFrame

\* m_reserved += size (library.h:190), m_reserved -= size (library.h:128)
MTReserved(t) ==
  /\ thr[t].pc = "reserved"
  /\ LET d == IF thr[t].op = "free" THEN 0 - ToInt64(thr[t].size)
              ELSE ToInt64(thr[t].size)
     IN  safiStats' = [safiStats EXCEPT
                         !.m_reserved = atomic_rmw(@, thr[t].seen, d)]
  /\ thr' = [thr EXCEPT ![t].pc = "total",
                        ![t].seen = IF thr[t].op = "free" THEN safiStats.m_freed
                                    ELSE safiStats.m_total_reserved]
  /\ UNCHANGED issued
  /\ MTFrame

\* m_total_reserved += size (library.h:191), m_freed += size (library.h:129)
MTTotal(t) ==
  /\ thr[t].pc = "total"
  /\ safiStats' =
       IF thr[t].op = "free"
       THEN [safiStats EXCEPT
               !.m_freed = atomic_rmw(@, thr[t].seen, ToInt64(thr[t].size))]
       ELSE [safiStats EXCEPT
               !.m_total_reserved =
                 atomic_rmw(@, thr[t].seen, ToInt64(thr[t].size))]
  /\ thr' = [thr EXCEPT ![t].pc = IF thr[t].op = "free" THEN "count" ELSE "load",
                        ![t].seen = safiStats[CountField(thr[t].op)]]
  /\ UNCHANGED issued
  /\ MTFrame

\* m_real_peak.load() and m_reserved.load(), the arguments of std::max
\* (library.h:194), evaluated in either order
MTLoad(t) ==
  /\ thr[t].pc \in {"load", "load_peak", "load_reserved"}
  /\ \E which \in {"peak", "reserved"} :
       /\ thr[t].pc = "load_peak" => which = "peak"
       /\ thr[t].pc = "load_reserved" => which = "reserved"
       /\ thr' = [thr EXCEPT
                    ![t].lp = IF which = "peak" THEN safiStats.m_real_peak ELSE @,
                    ![t].lr = IF which = "reserved" THEN safiStats.m_reserved ELSE @,
                    ![t].pc = IF thr[t].pc # "load" THEN "store"
                              ELSE IF which = "peak" THEN "load_reserved"
                              ELSE "load_peak"]
  /\ UNCHANGED <<safiStats, issued>>
  /\ MTFrame

\* m_real_peak = std::max(...) (library.h:194)
MTStore(t) ==
  /\ thr[t].pc = "store"
  /\ safiStats' = [safiStats EXCEPT !.m_real_peak = Max(thr[t].lp, thr[t].lr)]
  /\ thr' = [thr EXCEPT ![t].pc = "count", ![t].lp = 0, ![t].lr = 0,
                        ![t].seen = safiStats[CountField(thr[t].op)]]
  /\ UNCHANGED issued
  /\ MTFrame

\* ++m_num_mallocs, ++m_num_callocs, ++m_num_reallocs, ++m_num_frees
MTCount(t) ==
  /\ thr[t].pc = "count"
  /\ safiStats' = [safiStats EXCEPT
                     ![CountField(thr[t].op)] = atomic_rmw(@, thr[t].seen, 1)]
  /\ thr' = [thr EXCEPT ![t] = [pc |-> "idle", op |-> "none", size |-> 0,
                                lp |-> 0, lr |-> 0, seen |-> 0]]
  /\ UNCHANGED issued
  /\ MTFrame

NextMT ==
  \E t \in Threads :
    \/ MTBegin(t)
    \/ MTReserved(t)
    \/ MTTotal(t)
    \/ MTLoad(t)
    \/ MTStore(t)
    \/ MTCount(t)

SpecMT == Init /\ [][NextMT]_vars

AllIdle == \A t \in Threads : thr[t].pc = "idle"

(***************************************************************************)
(* __temp_malloc on its own, called by several threads.  The function      *)
(* holds buffer_mutex from its first statement to its return (or to         *)
(* exit(1)), so one caller at a time runs its body.                         *)
(***************************************************************************)
\* request sizes: small ones, ones that fill the buffer, and ones so large
\* that used_buffer_size + size exceeds the range of size_t
ArenaSizes ==
  {0, 8, 100, TEMP_BUFFER_SIZE - 100, TEMP_BUFFER_SIZE, TEMP_BUFFER_SIZE + 1,
   Word - 50, Word - 1}

\* std::lock_guard<std::mutex> guard(buffer_mutex)
ArenaLock(t) ==
  /\ ~terminated
  /\ arena.holder = 0
  /\ Len(arena.log) < MaxArenaCalls
  /\ \E size \in ArenaSizes :
       arena' = [arena EXCEPT !.holder = t, !.size = size]
  /\ UNCHANGED <<safiControl, safiStats, used_buffer_size, handed, heap, stack,
                 print_thread, thread_objs, inits, resolved, dl, terminated,
                 ncalls, nnested, last, thr, issued, ps, run>>

\* the body of __temp_malloc and the release of the mutex at its return
ArenaServe(t) ==
  /\ ~terminated
  /\ arena.holder = t
  /\ LET r == temp_malloc(World, arena.size) IN
       /\ used_buffer_size' = r.w.used
       /\ handed' = r.w.handed
       /\ terminated' = r.w.terminated
       /\ arena' =
            IF r.status = "ret"
            THEN [holder |-> 0, size |-> 0,
                  log |-> Append(arena.log,
                                 [off |-> r.ret.a, size |-> arena.size,
                                  before |-> used_buffer_size,
                                  after |-> r.w.used])]
            ELSE arena
  /\ UNCHANGED <<safiControl, safiStats, heap, stack, print_thread,
                 thread_objs, inits, resolved, dl, ncalls, nnested, last, thr,
                 issued, ps, run>>

NextArena ==
  \E t \in Threads :
    \/ ArenaLock(t)
    \/ ArenaServe(t)

SpecArena == Init /\ [][NextArena]_vars

(***************************************************************************)
(* The print_size lambda of SafiStats::print (library.h:140-149), one step  *)
(* for each evaluation of the loop condition.                               *)
(***************************************************************************)
\* const char* units[] = {"B", "kB", "MB", "GB", "TB"}
Units == <<"B", "kB", "MB", "GB", "TB">>

\* byte values at and around the powers of 1024, up to 2^60
PrintValues ==
  {Value(hi, lo) :
     hi \in {0, 1, 5, Kilo - 1, Kilo, Kilo + 1, 5 * Kilo, Kilo * Kilo - 1,
             Kilo * Kilo, Limb - 1},
     lo \in {0, 1, 5, Kilo - 1, Kilo, Kilo + 1, 5 * Kilo, Kilo * Kilo - 1,
             Kilo * Kilo, 5 * Kilo * Kilo, Limb - 1}}

StopsAtKilo(size, i) == Geq(size, Value(0, Kilo + 1)) /\ i < Len(Units) - 1

\* (size / 1024) > 0 && i < length - 1
loop_cond(size, i) == IsPositive(DivKilo(size)) /\ i < Len(Units) - 1

PsFrame ==
  UNCHANGED <<safiControl, safiStats, used_buffer_size, handed, heap, stack,
              print_thread, thread_objs, inits, resolved, dl, terminated,
              ncalls, nnested, last, thr, issued, arena, run>>

\* print_size(prefix, size) is called
PrintSizeCall ==
  /\ ps.pc = "idle"
  /\ \E v \in PrintValues :
       ps' = [PsInit EXCEPT !.pc = "loop", !.v = v, !.size = v]
  /\ PsFrame

\* the loop condition holds: size /= 1024, i++
PrintSizeLoop ==
  /\ ps.pc = "loop"
  /\ loop_cond(ps.size, ps.i)
  /\ ps' = [ps EXCEPT !.size = DivKilo(@), !.i = @ + 1]
  /\ PsFrame

\* the loop condition fails: fprintf(stream, "%s %ld %s\n", prefix, size, units[i])
PrintSizeEmit ==
  /\ ps.pc = "loop"
  /\ ~loop_cond(ps.size, ps.i)
  /\ ps' = [ps EXCEPT !.pc = "done", !.num = ps.size, !.unit = Units[ps.i + 1]]
  /\ PsFrame

NextPrint ==
  \/ PrintSizeCall
  \/ PrintSizeLoop
  \/ PrintSizeEmit

SpecPrint == Init /\ [][NextPrint]_vars

(***************************************************************************)
(* The process from __libc_start_main to its end.  The main thread goes    *)
(* through __libc_start_main and main_hook; while the real main runs, the   *)
(* application's threads make their first calls into malloc and free, each  *)
(* read and write of safiControl being a step of its own; every            *)
(* __init_safi that completes starts a __print_safi_stats thread.          *)
(***************************************************************************)
\* values the real main returns
Results == {0, 3}

\* what the process ends with after a call through a null function pointer
\* (undefined behaviour): a fault (SIGSEGV), or whatever the stray call leaves
NullCallStatus == {139, 0}

RunFrame ==
  UNCHANGED <<safiStats, used_buffer_size, handed, heap, stack, thread_objs,
              dl, ncalls, nnested, last, thr, issued, arena, ps>>

KeepControl == UNCHANGED <<safiControl, print_thread, inits, resolved>>

HookReturnsZero(r) == 0

\* "return ret" of main_hook
hook_result(r) == r

\* __libc_start_main: orig_main = main, dlsym of the real __libc_start_main,
\* and the call through orig, which is not tested for null; the real
\* __libc_start_main calls main_hook
LibcStartMain ==
  /\ ~terminated
  /\ run.pc = "start"
  /\ safiControl' = [safiControl EXCEPT !.orig_main = TRUE]
  /\ \E found \in BOOLEAN :
       IF found
       THEN /\ run' = [run EXCEPT !.pc = "hook"]
            /\ UNCHANGED terminated
       ELSE \E st \in NullCallStatus :
              /\ run' = [run EXCEPT !.pc = "crashed", !.lookup_failed = TRUE,
                                    !.null_call = TRUE, !.status = st]
              /\ terminated' = TRUE
  /\ UNCHANGED <<print_thread, inits, resolved>>
  /\ RunFrame

\* main_hook: int ret = safiControl.orig_main(argc, argv, envp)
HookCallsMain ==
  /\ ~terminated
  /\ run.pc = "hook"
  /\ run' = [run EXCEPT !.pc = "main", !.main_calls = @ + 1,
                        !.null_call = @ \/ ~safiControl.orig_main]
  /\ UNCHANGED terminated
  /\ KeepControl
  /\ RunFrame

\* the real main returns
MainReturns ==
  /\ ~terminated
  /\ run.pc = "main"
  /\ \E r \in Results : run' = [run EXCEPT !.pc = "returned", !.ret = r]
  /\ UNCHANGED terminated
  /\ KeepControl
  /\ RunFrame

\* the real main does not return: the application calls exit
MainExits ==
  /\ ~terminated
  /\ run.pc = "main"
  /\ \E r \in Results : run' = [run EXCEPT !.pc = "exited", !.status = r]
  /\ terminated' = TRUE
  /\ KeepControl
  /\ RunFrame

\* safiStats.disablePrint()
HookDisables ==
  /\ ~terminated
  /\ run.pc = "returned"
  /\ run' = [run EXCEPT !.pc = "disabled", !.disabled = TRUE]
  /\ UNCHANGED terminated
  /\ KeepControl
  /\ RunFrame

\* if (print_thread != nullptr) { print_thread->detach(); delete print_thread; }
HookRetires ==
  /\ ~terminated
  /\ run.pc = "disabled"
  /\ run' = [run EXCEPT !.pc = "retired", !.retired = print_thread # NULL]
  /\ UNCHANGED terminated
  /\ KeepControl
  /\ RunFrame

\* safiStats.print(): the final report
HookReports ==
  /\ ~terminated
  /\ run.pc = "retired"
  /\ run' = [run EXCEPT !.pc = "reported", !.final_reports = @ + 1]
  /\ UNCHANGED terminated
  /\ KeepControl
  /\ RunFrame

\* return ret; the real __libc_start_main ends the process with it
HookReturns ==
  /\ ~terminated
  /\ run.pc = "reported"
  /\ run' = [run EXCEPT !.pc = "exit", !.hook_ret = hook_result(run.ret),
                        !.status = hook_result(run.ret)]
  /\ terminated' = TRUE
  /\ KeepControl
  /\ RunFrame

\* the application's threads begin their first call while the real main
\* runs, and go on with it until the process ends
AppRuns ==
  /\ ~terminated
  /\ run.pc \in {"main", "returned", "disabled", "retired", "reported"}

\* a thread calls malloc or free (of a pointer that is not in temp_buffer);
\* malloc reads pending_init first (library.cpp:150) and is served by
\* __temp_malloc when it is set
AppCall(t) ==
  /\ AppRuns
  /\ run.pc = "main"
  /\ run.app[t].pc = "idle"
  /\ \E op \in {"malloc", "free"} :
       run' = [run EXCEPT
                 !.app[t] = [pc |-> IF op = "malloc" /\ safiControl.pending_init
                                    THEN "done" ELSE "check", op |-> op]]
  /\ UNCHANGED terminated
  /\ KeepControl
  /\ RunFrame

\* if (safiControl.orig_malloc == nullptr), if (safiControl.orig_free == nullptr)
AppCheck(t) ==
  /\ AppRuns
  /\ run.app[t].pc = "check"
  /\ run' = [run EXCEPT
               !.app[t].pc =
                 IF (IF run.app[t].op = "malloc" THEN malloc_needs_init(safiControl)
                     ELSE free_needs_init(safiControl))
                 THEN "init" ELSE "done"]
  /\ UNCHANGED terminated
  /\ KeepControl
  /\ RunFrame

\* __init_safi, SafiControl::init: pending_init = true
AppInitBegin(t) ==
  /\ AppRuns
  /\ run.app[t].pc = "init"
  /\ safiControl' = [safiControl EXCEPT !.pending_init = TRUE]
  /\ inits' = inits + 1
  /\ run' = [run EXCEPT !.app[t].pc = "lookups"]
  /\ UNCHANGED <<terminated, print_thread, resolved>>
  /\ RunFrame

\* the four dlsym lookups and the test that follows them: exit(1) with a
\* message when one of them is null
AppInitLookups(t) ==
  /\ AppRuns
  /\ run.app[t].pc = "lookups"
  /\ \E found \in BOOLEAN :
       IF found
       THEN /\ safiControl' = [safiControl EXCEPT !.orig_malloc = TRUE,
                                                  !.orig_calloc = TRUE,
                                                  !.orig_realloc = TRUE,
                                                  !.orig_free = TRUE]
            /\ run' = [run EXCEPT !.app[t].pc = "finish"]
            /\ UNCHANGED terminated
       ELSE /\ run' = [run EXCEPT !.lookup_failed = TRUE, !.diag = TRUE,
                                  !.status = 1]
            /\ terminated' = TRUE
            /\ UNCHANGED safiControl
  /\ UNCHANGED <<print_thread, inits, resolved>>
  /\ RunFrame

\* pending_init = false
AppInitEnd(t) ==
  /\ AppRuns
  /\ run.app[t].pc = "finish"
  /\ safiControl' = [safiControl EXCEPT !.pending_init = FALSE]
  /\ resolved' = resolved + 1
  /\ run' = [run EXCEPT !.app[t].pc = "spawn"]
  /\ UNCHANGED <<terminated, print_thread, inits>>
  /\ RunFrame

\* print_thread = new std::thread(__print_safi_stats)
AppSpawn(t) ==
  /\ AppRuns
  /\ run.app[t].pc = "spawn"
  /\ print_thread' = HeapPtr(Len(run.daemon) + 1)
  /\ run' = [run EXCEPT !.app[t].pc = "done", !.daemon = Append(@, "check")]
  /\ UNCHANGED <<terminated, safiControl, inits, resolved>>
  /\ RunFrame

\* while (!safiStats.isPrintEnabled()): m_disable_print is a plain bool read
\* without synchronisation, so a thread may still read false after
\* disablePrint ("sleep_stale": it went to sleep on such a read)
DaemonCheck(d) ==
  /\ ~terminated
  /\ d \in DOMAIN run.daemon
  /\ run.daemon[d] = "check"
  /\ \E seen \in (IF run.disabled THEN {TRUE, FALSE} ELSE {FALSE}) :
       run' = [run EXCEPT
                 !.daemon[d] = IF seen THEN "stopped"
                               ELSE IF run.disabled THEN "sleep_stale"
                               ELSE "sleep"]
  /\ UNCHANGED terminated
  /\ KeepControl
  /\ RunFrame

\* sleep_for returns and safiStats.print() emits a periodic report
DaemonReport(d) ==
  /\ ~terminated
  /\ d \in DOMAIN run.daemon
  /\ run.daemon[d] \in {"sleep", "sleep_stale"}
  /\ run' = [run EXCEPT
               !.daemon[d] = "check",
               !.late_report = @ \/ (run.daemon[d] = "sleep" /\ run.disabled),
               !.stale_report = @ \/ run.daemon[d] = "sleep_stale"]
  /\ UNCHANGED terminated
  /\ KeepControl
  /\ RunFrame

NextRun ==
  \/ LibcStartMain
  \/ HookCallsMain
  \/ MainReturns
  \/ MainExits
  \/ HookDisables
  \/ HookRetires
  \/ HookReports
  \/ HookReturns
  \/ \E t \in Threads :
       \/ AppCall(t)
       \/ AppCheck(t)
       \/ AppInitBegin(t)
       \/ AppInitLookups(t)
       \/ AppInitEnd(t)
       \/ AppSpawn(t)
  \/ \E d \in Threads :
       \/ DaemonCheck(d)
       \/ DaemonReport(d)

SpecRun == Init /\ [][NextRun]_vars

(***************************************************************************)
(* Properties.                                                             *)
(***************************************************************************)

\* C1: reserved == total_reserved - freed after every call, whatever the
\* calls were (shrinking resizes and releases included).
C1_ReservedIsTotalMinusFreed ==
  safiStats.m_reserved = safiStats.m_total_reserved - safiStats.m_freed

\* a resize by the real realloc has shrunk a block and reserved with it
C1_Witness ==
  /\ last.op = "realloc"
  /\ "realloc" \in last.info.real
  /\ last.ptr.k = "heap"
  /\ last.got < last.held
  /\ last.post.m_reserved < last.pre.m_reserved
  /\ last.post.m_freed = last.pre.m_freed

\* C2: with one thread, peak >= reserved after every completed call.
C2_PeakAtLeastReserved == safiStats.m_real_peak >= safiStats.m_reserved

\* a release by the real free has brought reserved below the peak
C2_Witness ==
  /\ last.op = "free"
  /\ last.ptr.k = "heap"
  /\ "free" \in last.info.real
  /\ last.post.m_real_peak > last.post.m_reserved
  /\ stack = <<>>

\* what release(ptr) must leave alone for a pointer of the arena
ReleaseIsNoOp ==
  /\ last.post = last.pre
  /\ last.info.real = {}
  /\ ~last.info.inited

ByteCounters(st) ==
  <<st.m_reserved, st.m_total_reserved, st.m_freed, st.m_real_peak>>

\* C4: when the real allocate, zero-allocate or resize primitive fails, the
\* call returns null and reserved, total_reserved, freed and peak are what
\* they were before the call.  (Stated for calls that do not run the lazy
\* initialization.)
C4_FailureLeavesBytesAlone ==
  (last.info.fail /\ ~last.info.inited)
    => (last.ret = NULL /\ ByteCounters(last.post) = ByteCounters(last.pre))

\* C5: a resize made once the real resize primitive is resolved changes
\* reserved by exactly usable_size(result) - usable_size(ptr before the
\* call), negative when the block shrinks, and num_resizes by exactly 1.
C5_ResizeChangesReservedByDifference ==
  (last.op = "realloc" /\ ~last.fallback) =>
    /\ last.post.m_reserved =
         last.pre.m_reserved
           + (last.got - (IF last.ptr.k = "arena" THEN last.info.old
                          ELSE last.held))
    /\ last.post.m_num_reallocs = last.pre.m_num_reallocs + 1

\* a block was shrunk in place
C5_Witness ==
  /\ last.op = "realloc"
  /\ ~last.fallback
  /\ last.ptr.k = "heap"
  /\ last.ret = last.ptr
  /\ last.got < last.held
  /\ last.post.m_reserved = last.pre.m_reserved - (last.held - last.got)

\* C6: allocate(size) immediately followed by release of the returned block
\* leaves reserved at its value before the allocate call and raises
\* num_allocs and num_releases by exactly 1 each, also when the allocate
\* call is the first call into the library.
C6_AllocateThenRelease ==
  [][ ( /\ last.op = "malloc"
        /\ last.ret.k = "heap"
        /\ last.depth = 0
        /\ stack = <<>>
        /\ ncalls' = ncalls + 1
        /\ stack' = <<>>
        /\ last'.op = "free"
        /\ last'.ptr = last.ret )
      => ( /\ safiStats'.m_reserved = last.pre.m_reserved
           /\ safiStats'.m_num_mallocs = last.pre.m_num_mallocs + 1
           /\ safiStats'.m_num_frees = last.pre.m_num_frees + 1 ) ]_vars

\* C7: zero-allocate(count, size) called while the real zero-allocate
\* primitive is not resolved returns an all-zero region of count * size
\* bytes, num_allocs goes up by 1 and num_zero_allocs stays.  (Stated for the
\* calls the program makes before resolution has started, with memory
\* available and count * size within size_t.)
C7_FallbackZeroAllocate ==
  ( /\ last.op = "calloc"
    /\ last.fallback
    /\ last.depth = 0
    /\ ~last.info.fail
    /\ last.num * last.size < Word )
    => /\ last.ret # NULL
       /\ last.info.zero
       /\ last.got >= last.num * last.size
       /\ last.post.m_num_mallocs = last.pre.m_num_mallocs + 1
       /\ last.post.m_num_callocs = last.pre.m_num_callocs

\* C8: once all concurrent recordings have completed, the four operation
\* counts and reserved, total_reserved and freed are what the same
\* recordings give when run one after another.
C8_ExactTotals ==
  AllIdle =>
    /\ safiStats.m_num_mallocs = issued.m_num_mallocs
    /\ safiStats.m_num_callocs = issued.m_num_callocs
    /\ safiStats.m_num_reallocs = issued.m_num_reallocs
    /\ safiStats.m_num_frees = issued.m_num_frees
    /\ safiStats.m_reserved = issued.m_reserved
    /\ safiStats.m_total_reserved = issued.m_total_reserved
    /\ safiStats.m_freed = issued.m_freed

\* two recordings have overlapped (the peak shows it) and both are complete
C8_Witness ==
  /\ AllIdle
  /\ Recorded(issued) >= 2
  /\ safiStats.m_real_peak # issued.m_real_peak
  /\ safiStats.m_reserved = issued.m_reserved

\* C9: with two or more threads recording at once, peak >= reserved holds
\* whenever no recording is in flight.
C9_PeakAtLeastReservedWhenIdle ==
  AllIdle => safiStats.m_real_peak >= safiStats.m_reserved

\* C10: in any sequence of interposed calls resolution is attempted at most
\* once; in particular, after resolve() has succeeded no later call performs
\* another resolution lookup.
C10_ResolvedAtMostOnce == inits <= 1

\* C15: record_resize(delta) adds delta to reserved and leaves total_reserved
\* and freed unchanged, so total_reserved never changes as the effect of a
\* resize.
C15_ResizeLeavesTotalAlone ==
  (last.op = "realloc" /\ ~last.fallback) =>
    /\ last.post.m_reserved =
         last.pre.m_reserved + ToInt64(realloc_delta(last.got, last.info.old))
    /\ last.post.m_total_reserved = last.pre.m_total_reserved
    /\ last.post.m_freed = last.pre.m_freed

\* C17: every allocate(size) call made while pending_init is true is served
\* by __temp_malloc: it returns a pointer into the arena, calls neither
\* resolve() nor the real allocate primitive and changes no counter.
C17_WindowServedByArena ==
  (last.op = "malloc" /\ last.pending) =>
    /\ last.ret.k = "arena"
    /\ last.ret.a >= 0
    /\ last.ret.a <= TEMP_BUFFER_SIZE
    /\ last.info.real = {}
    /\ ~last.info.inited
    /\ last.post = last.pre

\* dlsym has had an allocate call served from the arena during a lookup
C17_Witness ==
  /\ last.op = "malloc"
  /\ last.pending
  /\ last.depth = 1
  /\ last.ret = ArenaPtr(last.used)
  /\ used_buffer_size = last.used + last.size
  /\ inits = 1

\* C18: while a resolve() is in progress no nested call issued by the lookup
\* mechanism starts a second resolve(): the nesting depth of resolve() never
\* exceeds 1, and pending_init stays true until the outer resolve() has
\* finished all four lookups.
C18_NoNestedResolve ==
  /\ Len(stack) <= 1
  /\ (stack # <<>> /\ ~terminated) => safiControl.pending_init

\* C20: resize(ptr, new_size) with ptr inside the arena, called once the real
\* resize primitive is resolved, forwards ptr neither to the real resize
\* primitive nor to the real allocator's usable-size query.
C20_ArenaPointerNotForwarded ==
  (last.op = "realloc" /\ last.ptr.k = "arena" /\ ~last.fallback)
    => (~last.info.fwd /\ "realloc" \notin last.info.real)

\* C19: the arena offset stays within 0..capacity and never decreases; each
\* successful bootstrap_allocate(size) returns the region
\* [used_before, used_before + size), which lies inside the arena and
\* overlaps no region handed out earlier; this for every size_t value of
\* size.
C19_ArenaRegions ==
  /\ used_buffer_size >= 0
  /\ used_buffer_size <= TEMP_BUFFER_SIZE
  /\ \A i \in DOMAIN arena.log :
       /\ arena.log[i].off = arena.log[i].before
       /\ arena.log[i].after >= arena.log[i].before
       /\ arena.log[i].off + arena.log[i].size <= TEMP_BUFFER_SIZE
       /\ \A j \in DOMAIN arena.log :
            i < j => arena.log[i].off + arena.log[i].size <= arena.log[j].off

\* x * 1024
TimesKilo(x) ==
  Value(x.hi * Kilo + x.lo \div (Limb \div Kilo), (x.lo % (Limb \div Kilo)) * Kilo)

\* x * 1024^k, for k in 0..4
TimesKiloTo(x, k) ==
  CASE k = 0 -> x
    [] k = 1 -> TimesKilo(x)
    [] k = 2 -> TimesKilo(TimesKilo(x))
    [] k = 3 -> TimesKilo(TimesKilo(TimesKilo(x)))
    [] k = 4 -> TimesKilo(TimesKilo(TimesKilo(TimesKilo(x))))

PlusOne(x) == IF x.lo = Limb - 1 THEN Value(x.hi + 1, 0) ELSE Value(x.hi, x.lo + 1)

\* the largest k in 0..4 with v >= 1024^k
UnitIndex(v) ==
  CHOOSE k \in 0 .. 4 :
    /\ Geq(v, TimesKiloTo(Value(0, 1), k))
    /\ \A j \in 0 .. 4 : Geq(v, TimesKiloTo(Value(0, 1), j)) => j <= k

\* C16: for every non-negative byte value v the report prints
\* floor(v / 1024^k) with unit number k of (B, kB, MB, GB, TB), k being the
\* largest index in 0..4 with v >= 1024^k (0 when v < 1024); 5,242,880 is
\* printed as "5 MB", and for every unit below TB the number is below 1024.
C16_LargestUnit ==
  ps.pc = "done" =>
    LET k == IF Geq(ps.v, Value(0, 1)) THEN UnitIndex(ps.v) ELSE 0 IN
    /\ ps.unit = Units[k + 1]
    /\ Geq(ps.v, TimesKiloTo(ps.num, k))
    /\ ~Geq(ps.v, TimesKiloTo(PlusOne(ps.num), k))
    /\ k < 4 => ~Geq(ps.num, Value(0, Kilo))
    /\ ps.v = Value(0, 5 * Kilo * Kilo) => (ps.num = Value(0, 5) /\ ps.unit = "MB")

\* 5,242,880 bytes have been printed, after two divisions
C16_Witness ==
  /\ ps.pc = "done"
  /\ ps.v = Value(0, 5242880)
  /\ ps.i = 2
  /\ ps.num = Value(0, 5)
  /\ ps.unit = "MB"

\* C11: over any execution, also when several threads make their first call
\* at the same time and when release is the first call, the reporting thread
\* is started at most once.
C11_OneDaemon == Len(run.daemon) <= 1

\* C12: once main_hook has disabled reporting, the reporting thread emits no
\* further periodic report: a thread that was asleep when reporting was
\* disabled finishes its sleep and leaves its loop without printing again.
C12_NoReportAfterDisable == ~run.late_report

\* C13: main_hook calls the real main exactly once and, after it has
\* returned r, first disables reporting, then emits exactly one final
\* report, then returns r; no final report is emitted before the real main
\* has returned.
C13_HookOrder ==
  /\ run.main_calls <= 1
  /\ run.final_reports <= 1
  /\ run.pc \in {"main", "exited"} => (run.main_calls = 1 /\ run.final_reports = 0)
  /\ run.disabled => run.pc \in {"disabled", "retired", "reported", "exit"}
  /\ run.final_reports = 1 => (run.disabled /\ run.pc \in {"reported", "exit"})
  /\ run.pc = "exit" =>
       /\ run.main_calls = 1
       /\ run.final_reports = 1
       /\ run.hook_ret = run.ret
       /\ run.status = run.ret

\* the real main returned 3 with a reporting thread running, and main_hook
\* has returned 3 after one final report
C13_Witness ==
  /\ run.pc = "exit"
  /\ run.ret = 3
  /\ run.hook_ret = 3
  /\ run.final_reports = 1
  /\ run.retired
  /\ Len(run.daemon) >= 1

\* C14: a failed lookup of one of the four heap primitives or of the real
\* process entry routine ends the process with a diagnostic and a non-zero
\* status, and no call is made through a null function pointer.
C14_FailedLookupIsFatal ==
  /\ ~run.null_call
  /\ run.lookup_failed => (terminated /\ run.diag /\ run.status # 0)

====
